---- MODULE Spec2Model ----
(***************************************************************************)
(* A model of the sauron virtual-tree data model (sauron_vdom/src/vnode.rs) *)
(* and of the custom-element runtime (sauron-core/src/dom/custom_element.rs)*)
(***************************************************************************)
EXTENDS Integers, Sequences, FiniteSets

(***************************************************************************)
(* Bounds of the model.                                                    *)
(***************************************************************************)
MaxNodes == 3
MaxAttrs == 2
MaxClicks == 1
MaxAttaches == 2
MaxPending == 2
MaxCount == 3
MaxEffects == 2
MaxGiven == 2
MaxIndent == 2

(***************************************************************************)
(* State of the tree model.                                                *)
(*   node       the tree being built with the Node combinators             *)
(*   mapFunc    the function of the last Node::map call, if any            *)
(*   mapOut     the tree that call returned                                *)
(*   mapFunc2   the function of a second Node::map call on mapOut          *)
(*   mapOut2    the tree the second call returned                          *)
(*   mapDirect  node mapped once with the composition of the two functions *)
(***************************************************************************)
VARIABLES node, mapFunc, mapOut, mapFunc2, mapOut2, mapDirect

(***************************************************************************)
(* State of the custom-element runtime.                                    *)
(*   program     WebComponent.program: the application, the borrow state   *)
(*               of its RefCell, the committed tree, the mount scope, the  *)
(*               dispatched messages and the pending tasks                 *)
(*   pc          the statement the running host callback or cycle is at    *)
(*   hostAttrs   the attributes the host element carries                   *)
(*   attaches    how many times the host delivered connectedCallback       *)
(*   detached    whether the host delivered disconnectedCallback           *)
(*   notified    the calls APP::attribute_changed received on the last     *)
(*               attribute change, and the names of all calls so far       *)
(***************************************************************************)
VARIABLES program, pc, hostAttrs, attaches, detached, notified

(***************************************************************************)
(* State of the Component and Application pair.                            *)
(*   comp     a component driven directly through Component<MSG, ()>       *)
(*   appl     the same component driven through Application<MSG>           *)
(*   compOut  what the last Component call returned                        *)
(*   applOut  what the last Application call returned                      *)
(***************************************************************************)
VARIABLES comp, appl, compOut, applOut

(***************************************************************************)
(* State of the element model.                                             *)
(*   elem           the node the combinators and queries are called on     *)
(*   base           that node before the first call                        *)
(*   givenChildren  the children handed to Node::children so far, in order *)
(*   givenAttrs     the attributes handed to Node::attributes so far       *)
(*   lastCall       the last call made on elem and what it returned        *)
(***************************************************************************)
VARIABLES elem, base, givenChildren, givenAttrs, lastCall

treeVars == <<node, mapFunc, mapOut, mapFunc2, mapOut2, mapDirect>>
wcVars == <<program, pc, hostAttrs, attaches, detached, notified>>
compVars == <<comp, appl, compOut, applOut>>
elemVars == <<elem, base, givenChildren, givenAttrs, lastCall>>
vars == <<treeVars, wcVars, compVars, elemVars>>

(***************************************************************************)
(* Small domains: tags, namespaces, attribute values, event payloads and   *)
(* messages.  Messages are the integers modulo MsgMod.                     *)
(***************************************************************************)
Tags == {"div", "svg"}
Texts == {"a", "b"}
Events == {0, 1}
MsgMod == 3
Msgs == 0 .. (MsgMod - 1)

None == <<>>
Some(x) == <<x>>

\* html elements carry no namespace, svg elements carry the svg namespace.
NamespaceOf(tag) == IF tag = "svg" THEN Some("svg") ELSE None

(***************************************************************************)
(* Remap functions F: Fn(MSG) -> MSG2.  A function is identified by the    *)
(* chain of named primitive functions it applies, first to last.           *)
(***************************************************************************)
FuncNames == {"inc", "dbl", "zero"}

ApplyName(name, m) ==
    CASE name = "inc" -> (m + 1) % MsgMod
      [] name = "dbl" -> (2 * m) % MsgMod
      [] name = "zero" -> 0

RECURSIVE ApplyFunc(_, _)
ApplyFunc(func, m) ==
    IF func = <<>> THEN m
    ELSE ApplyFunc(Tail(func), ApplyName(Head(func), m))

\* compose(g, f): the function m |-> g(f(m)).
Compose(g, f) == f \o g

Funcs == {<<name>> : name \in FuncNames}

(***************************************************************************)
(* Callback<EVENT, MSG>: a handle on a function from an event payload to a *)
(* message.  fn names the closure the callback was built from; maps holds, *)
(* in order, the remap functions wrapped around it by Callback::map.  Two  *)
(* callbacks are equal iff they wrap the same function identity, that is   *)
(* the same closure under the same wrappers.                               *)
(***************************************************************************)
CallbackNames == {"payload", "one"}

NewCallback(name) == [fn |-> name, maps |-> <<>>]

ApplyClosure(name, e) ==
    CASE name = "payload" -> e % MsgMod
      [] name = "one" -> 1

RECURSIVE ApplyMaps(_, _)
ApplyMaps(maps, m) ==
    IF maps = <<>> THEN m
    ELSE ApplyMaps(Tail(maps), ApplyFunc(Head(maps), m))

\* Callback::emit
emit(cb, e) == ApplyMaps(cb.maps, ApplyClosure(cb.fn, e))

\* Callback::map: a new callback whose function is input |-> func(self.emit(input)).
Callback_map(cb, func) == [cb EXCEPT !.maps = Append(@, func)]

(***************************************************************************)
(* The tree model: Node, Element, Attribute, AttribValue, Text.            *)
(***************************************************************************)
ValueOf(v) == [kind |-> "Value", value |-> v]
CallbackOf(cb) == [kind |-> "Callback", cb |-> cb]

Attribute_new(name, value) == [name |-> name, value |-> value]

Text_new(s) == [kind |-> "Text", text |-> s]

Element_with_tag(tag) ==
    [kind |-> "Element", tag |-> tag, attrs |-> <<>>, children |-> <<>>,
     namespace |-> None]

MapSeq(Op(_), s) == [i \in 1 .. Len(s) |-> Op(s[i])]

Reverse(s) == [i \in 1 .. Len(s) |-> s[Len(s) + 1 - i]]

\* Mutant of AttribValue_map: the Callback is passed through like a Value.
AttribValue_map_passes_callback(self, func) == self

AttribValue_map(self, func) ==
    IF self.kind = "Value" THEN ValueOf(self.value)
    ELSE CallbackOf(Callback_map(self.cb, func))

AttribValue_is_event(self) == self.kind = "Callback"

Attribute_map(self, func) ==
    Attribute_new(self.name, AttribValue_map(self.value, func))

Attribute_is_event(self) == AttribValue_is_event(self.value)

RECURSIVE Node_map(_, _)
RECURSIVE Element_map(_, _)

\* Mutant of Element_map: the children are collected in reverse order.
Element_map_reverses_children(self, func) ==
    [kind |-> "Element",
     tag |-> self.tag,
     attrs |-> [i \in 1 .. Len(self.attrs) |-> Attribute_map(self.attrs[i], func)],
     namespace |-> self.namespace,
     children |-> Reverse([i \in 1 .. Len(self.children) |->
                              Node_map(self.children[i], func)])]

Element_map(self, func) ==
    [kind |-> "Element",
     tag |-> self.tag,
     attrs |-> [i \in 1 .. Len(self.attrs) |-> Attribute_map(self.attrs[i], func)],
     namespace |-> self.namespace,
     children |-> [i \in 1 .. Len(self.children) |->
                      Node_map(self.children[i], func)]]

Node_map(self, func) ==
    IF self.kind = "Element" THEN Element_map(self, func)
    ELSE Text_new(self.text)

Node_is_text_node(self) == self.kind = "Text"

Element_add_attributes(self, attrs) == [self EXCEPT !.attrs = @ \o attrs]

\* Mutant of Element_add_children: the new children are put in front.
Element_add_children_in_front(self, children) ==
    [self EXCEPT !.children = children \o @]

Element_add_children(self, children) == [self EXCEPT !.children = @ \o children]

\* Node::children: append children to an element; a Text is returned as is.
Node_children(self, children) ==
    IF self.kind = "Element" THEN Element_add_children(self, children) ELSE self

\* Node::attributes: append attributes to an element; a Text is returned as is.
Node_attributes(self, attributes) ==
    IF self.kind = "Element" THEN Element_add_attributes(self, attributes) ELSE self

(***************************************************************************)
(* Measures of a tree, used to bound the trees the model builds.           *)
(***************************************************************************)
RECURSIVE SumSeq(_)
SumSeq(s) == IF s = <<>> THEN 0 ELSE Head(s) + SumSeq(Tail(s))

RECURSIVE NodeCount(_)
NodeCount(n) ==
    IF n.kind = "Text" THEN 1
    ELSE 1 + SumSeq([i \in 1 .. Len(n.children) |-> NodeCount(n.children[i])])

RECURSIVE AttrCount(_)
AttrCount(n) ==
    IF n.kind = "Text" THEN 0
    ELSE Len(n.attrs)
         + SumSeq([i \in 1 .. Len(n.children) |-> AttrCount(n.children[i])])

RECURSIVE CallbackCount(_)
CallbackCount(n) ==
    IF n.kind = "Text" THEN 0
    ELSE Cardinality({i \in 1 .. Len(n.attrs) : Attribute_is_event(n.attrs[i])})
         + SumSeq([i \in 1 .. Len(n.children) |-> CallbackCount(n.children[i])])

RECURSIVE Depth(_)
Depth(n) ==
    IF n.kind = "Text" \/ n.children = <<>> THEN 1
    ELSE 1 + CHOOSE d \in 1 .. MaxNodes + 1 :
                /\ \E i \in 1 .. Len(n.children) : Depth(n.children[i]) = d
                /\ \A i \in 1 .. Len(n.children) : Depth(n.children[i]) <= d

\* The attributes and the leaves a view is built from.
AttrPool ==
    {Attribute_new("class", ValueOf("x"))}
    \cup {Attribute_new("onclick", CallbackOf(NewCallback(c))) : c \in CallbackNames}

LeafPool ==
    {Text_new(t) : t \in Texts}
    \cup {Element_with_tag("span")}
    \cup {Node_attributes(Element_with_tag("input"),
                          <<Attribute_new("onclick", CallbackOf(NewCallback("payload")))>>)}

TreeInit ==
    /\ node \in LeafPool
    /\ mapFunc = None
    /\ mapOut = None
    /\ mapFunc2 = None
    /\ mapOut2 = None
    /\ mapDirect = None

NotMapped == mapOut = None

\* node.children(vec![child])
AppendChild ==
    /\ NotMapped
    /\ \E child \in LeafPool :
          /\ NodeCount(node) + NodeCount(child) <= MaxNodes
          /\ AttrCount(node) + AttrCount(child) <= MaxAttrs
          /\ node' = Node_children(node, <<child>>)
    /\ UNCHANGED <<mapFunc, mapOut, mapFunc2, mapOut2, mapDirect>>
    /\ UNCHANGED <<wcVars, compVars, elemVars>>

\* node.attributes(vec![attr])
AppendAttribute ==
    /\ NotMapped
    /\ \E attr \in AttrPool :
          /\ AttrCount(node) < MaxAttrs
          /\ node' = Node_attributes(node, <<attr>>)
    /\ UNCHANGED <<mapFunc, mapOut, mapFunc2, mapOut2, mapDirect>>
    /\ UNCHANGED <<wcVars, compVars, elemVars>>

\* Node::Element(Element { tag, namespace, .. }).children(vec![node])
WrapInElement ==
    /\ NotMapped
    /\ NodeCount(node) < MaxNodes
    /\ \E tag \in Tags :
          node' = Node_children([Element_with_tag(tag) EXCEPT
                                    !.namespace = NamespaceOf(tag)],
                                <<node>>)
    /\ UNCHANGED <<mapFunc, mapOut, mapFunc2, mapOut2, mapDirect>>
    /\ UNCHANGED <<wcVars, compVars, elemVars>>

\* mapOut = node.map(f)
MapNode ==
    /\ NotMapped
    /\ \E f \in Funcs :
          /\ mapFunc' = Some(f)
          /\ mapOut' = Some(Node_map(node, f))
    /\ UNCHANGED <<node, mapFunc2, mapOut2, mapDirect>>
    /\ UNCHANGED <<wcVars, compVars, elemVars>>

\* mapOut2 = mapOut.map(g), and mapDirect = node.map(compose(g, f))
MapAgain ==
    /\ mapOut # None
    /\ mapOut2 = None
    /\ \E g \in Funcs :
          /\ mapFunc2' = Some(g)
          /\ mapOut2' = Some(Node_map(mapOut[1], g))
          /\ mapDirect' = Some(Node_map(node, Compose(g, mapFunc[1])))
    /\ UNCHANGED <<node, mapFunc, mapOut>>
    /\ UNCHANGED <<wcVars, compVars, elemVars>>

TreeNext ==
    \/ AppendChild
    \/ AppendAttribute
    \/ WrapInElement
    \/ MapNode
    \/ MapAgain


(***************************************************************************)
(* The application: the click counter of examples/interactive.             *)
(***************************************************************************)
Digits == <<"0", "1", "2", "3", "4", "5", "6", "7", "8", "9">>
ToString(n) == Digits[n + 1]

RECURSIVE Join(_)
Join(strings) == IF strings = <<>> THEN "" ELSE Head(strings) \o Join(Tail(strings))

App_new == [click_count |-> 0]

App_update(self, msg) ==
    IF msg = "Click" THEN [self EXCEPT !.click_count = @ + 1] ELSE self

App_view(self) ==
    Node_children(
        Node_attributes(Element_with_tag("div"),
                        <<Attribute_new("class", ValueOf("some-class")),
                          Attribute_new("id", ValueOf("some-id"))>>),
        <<Node_attributes(Element_with_tag("input"),
                          <<Attribute_new("class", ValueOf("client")),
                            Attribute_new("onclick", CallbackOf(NewCallback("one")))>>),
          Text_new("Clicked: " \o ToString(self.click_count))>>)

\* Application::stylesheet and Application::style: the per-instance style
\* shows the counter once it has been clicked.
App_stylesheet == <<"div{}", "input{}">>
App_style(self) == <<"opacity:", IF self.click_count = 0 THEN "0" ELSE "1">>

\* CustomElement::observed_attributes
observed_attributes == <<"value">>

HostAttrNames == {"value", "title"}
HostAttrValues == {"1"}

(***************************************************************************)
(* Reconciliation: the difference of two trees as a list of mutations, and *)
(* its application to the surface.                                         *)
(***************************************************************************)
Patch(op, path, arg) == [op |-> op, path |-> path, arg |-> arg]

RECURSIVE Flatten(_)
Flatten(seqs) == IF seqs = <<>> THEN <<>> ELSE Head(seqs) \o Flatten(Tail(seqs))

Min(a, b) == IF a <= b THEN a ELSE b

\* Callback's PartialEq: the same function identity
Callback_eq(a, b) == a.fn = b.fn /\ a.maps = b.maps

\* Mutant of AttribValue_eq: only plain values are ever found equal.
AttribValue_eq_values_only(a, b) ==
    a.kind = "Value" /\ b.kind = "Value" /\ a.value = b.value

\* #[derive(PartialEq)] on AttribValue
AttribValue_eq(a, b) ==
    /\ a.kind = b.kind
    /\ IF a.kind = "Value" THEN a.value = b.value ELSE Callback_eq(a.cb, b.cb)

\* Element::get_attr: the first attribute with that name, if any
Element_get_attr(self, key) ==
    LET hits == SelectSeq(self.attrs, LAMBDA att : att.name = key)
    IN  IF hits = <<>> THEN None ELSE Some(Head(hits))

diff_attributes(old, new, path) ==
    LET FirstOf(attrs, i) == \A j \in 1 .. (i - 1) : attrs[j].name # attrs[i].name
        SetOrUpdate(i) ==
            LET was == Element_get_attr(old, new.attrs[i].name)
            IN  IF ~FirstOf(new.attrs, i) THEN <<>>
                ELSE IF was = None \/ ~AttribValue_eq(was[1].value, new.attrs[i].value)
                THEN <<Patch("SetAttribute", path, new.attrs[i])>>
                ELSE <<>>
        Remove(i) ==
            IF FirstOf(old.attrs, i) /\ Element_get_attr(new, old.attrs[i].name) = None
            THEN <<Patch("RemoveAttribute", path, old.attrs[i].name)>>
            ELSE <<>>
    IN  Flatten([i \in 1 .. Len(new.attrs) |-> SetOrUpdate(i)])
        \o Flatten([i \in 1 .. Len(old.attrs) |-> Remove(i)])

RECURSIVE diff(_, _, _)
diff(old, new, path) ==
    IF old.kind # new.kind THEN <<Patch("Replace", path, new)>>
    ELSE IF old.kind = "Text"
    THEN IF old.text = new.text THEN <<>> ELSE <<Patch("UpdateText", path, new.text)>>
    ELSE IF old.tag # new.tag THEN <<Patch("Replace", path, new)>>
    ELSE LET common == Min(Len(old.children), Len(new.children))
         IN  diff_attributes(old, new, path)
             \o Flatten([i \in 1 .. common |->
                            diff(old.children[i], new.children[i], Append(path, i))])
             \o (IF Len(new.children) > common
                 THEN <<Patch("AppendChildren", path,
                              SubSeq(new.children, common + 1, Len(new.children)))>>
                 ELSE <<>>)
             \o [k \in 1 .. (Len(old.children) - common) |->
                    Patch("RemoveChild", path, Len(old.children) + 1 - k)]

set_attribute(attrs, attr) ==
    IF \E i \in 1 .. Len(attrs) : attrs[i].name = attr.name
    THEN [i \in 1 .. Len(attrs) |-> IF attrs[i].name = attr.name THEN attr ELSE attrs[i]]
    ELSE Append(attrs, attr)

apply_here(target, patch) ==
    CASE patch.op = "Replace" -> patch.arg
      [] patch.op = "UpdateText" -> [target EXCEPT !.text = patch.arg]
      [] patch.op = "SetAttribute" -> [target EXCEPT !.attrs = set_attribute(@, patch.arg)]
      [] patch.op = "RemoveAttribute" ->
            [target EXCEPT !.attrs = SelectSeq(@, LAMBDA att : att.name # patch.arg)]
      [] patch.op = "AppendChildren" -> [target EXCEPT !.children = @ \o patch.arg]
      [] patch.op = "RemoveChild" ->
            [target EXCEPT !.children =
                SubSeq(@, 1, patch.arg - 1) \o SubSeq(@, patch.arg + 1, Len(@))]

RECURSIVE apply_at(_, _, _)
apply_at(target, path, patch) ==
    IF path = <<>> THEN apply_here(target, patch)
    ELSE [target EXCEPT !.children[Head(path)] = apply_at(@, Tail(path), patch)]

RECURSIVE apply_patches(_, _)
apply_patches(root, patches) ==
    IF patches = <<>> THEN root
    ELSE apply_patches(apply_at(root, Head(patches).path, Head(patches)), Tail(patches))

\* The surface node created for a tree: the same elements, attributes and text.
create_dom_node(vnode) == vnode

(***************************************************************************)
(* Program: the runtime that owns the application, the committed tree and  *)
(* the mount scope.  last_patches is the mutation list of the last         *)
(* update_dom; dispatched tells whether a message was dispatched or        *)
(* handled since the last render.                                          *)
(***************************************************************************)
Program_new(app) ==
    [app |-> app,
     app_borrow |-> "none",
     current_vdom |-> None,
     mount_node |-> [styles |-> <<>>, children |-> <<>>],
     pending_msgs |-> <<>>,
     tasks |-> 0,
     last_patches |-> None,
     dispatched |-> FALSE,
     update_error |-> None]

\* Program::mount with MountAction::Append: the first render, appended to the
\* mount scope and committed.
Program_mount(self) ==
    LET view == App_view(self.app)
    IN  [self EXCEPT !.current_vdom = Some(view),
                     !.mount_node.children = Append(@, create_dom_node(view)),
                     !.dispatched = FALSE]

Program_inject_style_to_mount(self, style) ==
    [self EXCEPT !.mount_node.styles = Append(@, style)]

\* Program::update_dom: view, diff against the committed tree, apply, commit.
Program_update_dom(self) ==
    LET view == App_view(self.app)
        patches == diff(self.current_vdom[1], view, <<>>)
        root == Len(self.mount_node.children)
    IN  [self EXCEPT !.mount_node.children[root] = apply_patches(@, patches),
                     !.current_vdom = Some(view),
                     !.last_patches = Some(patches),
                     !.dispatched = FALSE]

\* The mutations the surface accepts before its at-th one is refused: the
\* application of the list stops at the refused mutation.
apply_patches_failing(root, patches, at) ==
    apply_patches(root, SubSeq(patches, 1, at - 1))

\* Program::update_dom when the surface refuses the at-th mutation: the
\* mutations before it are applied, the rest is not, and the refused
\* operation is returned as the error.  Whether the committed tree advances
\* is left open (commits).
Program_update_dom_failing(self, at, commits) ==
    LET view == App_view(self.app)
        patches == diff(self.current_vdom[1], view, <<>>)
        root == Len(self.mount_node.children)
    IN  [self EXCEPT !.mount_node.children[root] =
                         apply_patches_failing(@, patches, at),
                     !.current_vdom = IF commits THEN Some(view) ELSE @,
                     !.last_patches = Some(patches),
                     !.update_error = Some(patches[at].op)]

\* The mutation list the next update_dom would compute.
pending_patches(self) == diff(self.current_vdom[1], App_view(self.app), <<>>)

\* Program::dispatch: the message joins the queue of the event loop.
Program_dispatch(self, msg) ==
    [self EXCEPT !.pending_msgs = Append(@, msg), !.dispatched = TRUE]

\* The update stage of a cycle: the oldest message is taken and handed to
\* Application::update, whose command may carry a task.
Program_update(self, spawns) ==
    [self EXCEPT !.app = App_update(@, Head(self.pending_msgs)),
                 !.pending_msgs = Tail(@),
                 !.tasks = IF spawns THEN @ + 1 ELSE @,
                 !.dispatched = TRUE]

\* RefCell::borrow_mut on program.app and the drop of its guard
borrow_mut(self) == [self EXCEPT !.app_borrow = "mut"]

\* Mutant of drop_guard: the guard outlives the statement.
drop_guard_kept(self) == self

drop_guard(self) == [self EXCEPT !.app_borrow = "none"]

(***************************************************************************)
(* The host bridge and WebComponent.                                       *)
(***************************************************************************)
JsNull == [type |-> "null", val |-> ""]
JsString(s) == [type |-> "string", val |-> s]

\* JsValue::as_string
as_string(v) == IF v.type = "string" THEN Some(v.val) ELSE None

\* The value the host passes for an attribute that is absent or present
ToJs(opt) == IF opt = None THEN JsNull ELSE JsString(opt[1])

SeqToSet(s) == {s[i] : i \in 1 .. Len(s)}

\* Mutant of observedAttributes: the host observes every attribute.
observedAttributes_every_name == HostAttrNames

\* static get observedAttributes() of the registered class
observedAttributes == SeqToSet(observed_attributes)

\* APP::attribute_changed, the application's handler: it is handed the
\* program and may dispatch a message of its own (handler = "dispatch").
APP_attribute_changed(prog, attr_name, old_value, new_value, handler) ==
    [program |-> IF handler = "dispatch" THEN Program_dispatch(prog, "Click") ELSE prog,
     calls |-> <<[attr_name |-> attr_name, old_value |-> old_value,
                  new_value |-> new_value]>>]

\* Mutant of WebComponent_attribute_changed: the runtime dispatches a
\* message itself after notifying the application.
WebComponent_attribute_changed_auto_dispatch(prog, attr_name, old_value, new_value, handler) ==
    LET r == APP_attribute_changed(prog, attr_name, as_string(old_value),
                                   as_string(new_value), handler)
    IN  [r EXCEPT !.program = Program_dispatch(@, "Click")]

WebComponent_attribute_changed(prog, attr_name, old_value, new_value, handler) ==
    APP_attribute_changed(prog, attr_name, as_string(old_value),
                          as_string(new_value), handler)

\* Mutant of static_style: the per-instance style is injected first.
static_style_is_dynamic == Join(App_style(App_new))

\* let static_style = APP::stylesheet().join("")
static_style == Join(App_stylesheet)

\* let dynamic_style = APP::style(&self.program.app.borrow()).join("")
dynamic_style(prog) == Join(App_style(prog.app))

\* A lifecycle handler of the application runs on the mutably borrowed
\* application and may leave it in any state.
app_lifecycle_callback(prog, clicks) ==
    drop_guard([borrow_mut(prog) EXCEPT !.app.click_count = clicks])

WcInit ==
    /\ program = Program_new(App_new)
    /\ pc = "idle"
    /\ hostAttrs = [n \in HostAttrNames |-> None]
    /\ attaches = 0
    /\ detached = FALSE
    /\ notified = [calls |-> <<>>, names |-> {}]

Queued == Len(program.pending_msgs) + program.tasks

\* connectedCallback, first statement: self.program.mount()
connectedCallback ==
    /\ pc = "idle"
    /\ attaches < MaxAttaches
    /\ program' = Program_mount(program)
    /\ pc' = "inject_static"
    /\ attaches' = attaches + 1
    /\ UNCHANGED <<hostAttrs, detached, notified>>
    /\ UNCHANGED <<treeVars, compVars, elemVars>>

\* self.program.inject_style_to_mount(&static_style)
InjectStaticStyle ==
    /\ pc = "inject_static"
    /\ program' = Program_inject_style_to_mount(program, static_style)
    /\ pc' = "inject_dynamic"
    /\ UNCHANGED <<hostAttrs, attaches, detached, notified>>
    /\ UNCHANGED <<treeVars, compVars, elemVars>>

\* self.program.inject_style_to_mount(&dynamic_style)
InjectDynamicStyle ==
    /\ pc = "inject_dynamic"
    /\ program' = Program_inject_style_to_mount(program, dynamic_style(program))
    /\ pc' = "app_connected"
    /\ UNCHANGED <<hostAttrs, attaches, detached, notified>>
    /\ UNCHANGED <<treeVars, compVars, elemVars>>

\* self.program.app.borrow_mut().connected_callback()
AppConnectedCallback ==
    /\ pc = "app_connected"
    /\ \E clicks \in 0 .. MaxClicks :
          program' = app_lifecycle_callback(program, clicks)
    /\ pc' = "update_dom"
    /\ UNCHANGED <<hostAttrs, attaches, detached, notified>>
    /\ UNCHANGED <<treeVars, compVars, elemVars>>

\* Mutant of expect: the error is dropped and the callback goes on.
expect_swallowed(error) == "idle"

\* Result::expect: an Err raises, an Ok lets the callback return.
expect(error) == IF error = None THEN "idle" ELSE "raised"

\* self.program.update_dom().expect("must update dom"); the surface accepts
\* every mutation (at = 0) or refuses the at-th one.
ConnectedUpdateDomAt(at, commits) ==
    /\ pc = "update_dom"
    /\ IF program.app_borrow # "none"
       THEN at = 0 /\ ~commits /\ pc' = "panicked" /\ UNCHANGED program
       ELSE /\ at \in 0 .. Len(pending_patches(program))
            /\ at = 0 => ~commits
            /\ program' = IF at = 0 THEN Program_update_dom(program)
                          ELSE Program_update_dom_failing(program, at, commits)
            /\ pc' = expect(program'.update_error)
    /\ UNCHANGED <<hostAttrs, attaches, detached, notified>>
    /\ UNCHANGED <<treeVars, compVars, elemVars>>

ConnectedUpdateDom ==
    /\ pc = "update_dom"
    /\ \E at \in 0 .. Len(pending_patches(program)), commits \in BOOLEAN :
          ConnectedUpdateDomAt(at, commits)

\* The host element's attribute is set or removed; the host calls
\* attributeChangedCallback only for an observed attribute.
SetAttribute(name, value, handler) ==
    /\ pc = "idle"
    /\ hostAttrs[name] # None \/ value # None
    /\ handler = "dispatch" => Queued < MaxPending
    /\ hostAttrs' = [hostAttrs EXCEPT ![name] = value]
    /\ IF name \in observedAttributes
       THEN LET r == WebComponent_attribute_changed(
                         program, name, ToJs(hostAttrs[name]), ToJs(value), handler)
            IN  /\ program' = r.program
                /\ notified' = [calls |-> r.calls,
                                names |-> notified.names
                                          \cup {r.calls[i].attr_name :
                                                  i \in 1 .. Len(r.calls)}]
       ELSE /\ handler = "ignore"
            /\ UNCHANGED <<program, notified>>
    /\ UNCHANGED <<pc, attaches, detached>>
    /\ UNCHANGED <<treeVars, compVars, elemVars>>

HostAttrOptions == {None} \cup {Some(v) : v \in HostAttrValues}
Handlers == {"ignore", "dispatch"}

HostSetAttribute ==
    \E name \in HostAttrNames, value \in HostAttrOptions, handler \in Handlers :
        SetAttribute(name, value, handler)

\* self.program.app.borrow_mut().disconnected_callback()
disconnectedCallback ==
    /\ pc = "idle"
    /\ \E clicks \in 0 .. MaxClicks :
          program' = app_lifecycle_callback(program, clicks)
    /\ detached' = TRUE
    /\ UNCHANGED <<pc, hostAttrs, attaches, notified>>
    /\ UNCHANGED <<treeVars, compVars, elemVars>>

\* self.program.app.borrow_mut().adopted_callback()
adoptedCallback ==
    /\ pc = "idle"
    /\ \E clicks \in 0 .. MaxClicks :
          program' = app_lifecycle_callback(program, clicks)
    /\ UNCHANGED <<pc, hostAttrs, attaches, detached, notified>>
    /\ UNCHANGED <<treeVars, compVars, elemVars>>

\* An event on the rendered input: its onclick callback yields a message,
\* which is dispatched.
DomEvent ==
    /\ pc = "idle"
    /\ program.mount_node.children # <<>>
    /\ Queued < MaxPending
    /\ program' = Program_dispatch(program, "Click")
    /\ UNCHANGED <<pc, hostAttrs, attaches, detached, notified>>
    /\ UNCHANGED <<treeVars, compVars, elemVars>>

\* A pending task completes and feeds its result back in as a message.
TaskCompletes ==
    /\ pc = "idle"
    /\ program.tasks > 0
    /\ program' = Program_dispatch([program EXCEPT !.tasks = @ - 1], "Click")
    /\ UNCHANGED <<pc, hostAttrs, attaches, detached, notified>>
    /\ UNCHANGED <<treeVars, compVars, elemVars>>

\* The event loop starts a cycle for the oldest dispatched message: update.
CycleUpdate ==
    /\ pc = "idle"
    /\ program.current_vdom # None
    /\ program.pending_msgs # <<>>
    /\ program.app.click_count < MaxClicks
    /\ \E spawns \in BOOLEAN :
          /\ spawns => Queued <= MaxPending
          /\ program' = Program_update(program, spawns)
    /\ pc' = "cycle_update_dom"
    /\ UNCHANGED <<hostAttrs, attaches, detached, notified>>
    /\ UNCHANGED <<treeVars, compVars, elemVars>>

\* The cycle goes on: view, diff, apply, commit.  The surface accepts every
\* mutation (at = 0) or refuses the at-th one, and the failure result ends
\* the cycle at its caller.
CycleUpdateDomAt(at, commits) ==
    /\ pc = "cycle_update_dom"
    /\ at \in 0 .. Len(pending_patches(program))
    /\ at = 0 => ~commits
    /\ program' = IF at = 0 THEN Program_update_dom(program)
                  ELSE Program_update_dom_failing(program, at, commits)
    /\ pc' = IF program'.update_error = None THEN "idle" ELSE "cycle_failed"
    /\ UNCHANGED <<hostAttrs, attaches, detached, notified>>
    /\ UNCHANGED <<treeVars, compVars, elemVars>>

CycleUpdateDom ==
    /\ pc = "cycle_update_dom"
    /\ \E at \in 0 .. Len(pending_patches(program)), commits \in BOOLEAN :
          CycleUpdateDomAt(at, commits)

WcNext ==
    \/ connectedCallback
    \/ InjectStaticStyle
    \/ InjectDynamicStyle
    \/ AppConnectedCallback
    \/ ConnectedUpdateDom
    \/ HostSetAttribute
    \/ disconnectedCallback
    \/ adoptedCallback
    \/ DomEvent
    \/ TaskCompletes
    \/ CycleUpdate
    \/ CycleUpdateDom

(***************************************************************************)
(* Component<MSG, ()> and the Application<MSG> implemented for it.  The    *)
(* component is a Container: a counter whose init and update return what   *)
(* its author wrote, given here as the argument returns.                   *)
(***************************************************************************)
CompMsgs == {"Inc", "Tick", "Load"}

Task_new(msg) == [yields |-> msg]

Container_default == [count |-> 0, ready |-> FALSE]

Container_init(self, returns) ==
    [self |-> [self EXCEPT !.ready = TRUE], tasks |-> returns]

Container_update(self, msg, returns) ==
    [self |-> IF msg = "Inc" THEN [self EXCEPT !.count = @ + 1] ELSE self,
     effects |-> returns]

Container_view(self, children) ==
    Node_children(
        Node_attributes(Element_with_tag("div"),
                        <<Attribute_new("onclick", CallbackOf(NewCallback("one")))>>),
        <<Text_new("Count: " \o ToString(self.count))>> \o children)

Container_stylesheet == <<"div{}">>

Container_style(self) == <<"order:", ToString(self.count)>>

\* impl Component<MSG, ()> for CONT
Component_init(self, returns) == Container_init(self, returns)

Component_update(self, msg, returns) == Container_update(self, msg, returns)

Component_view(self) == Container_view(self, <<>>)

Component_stylesheet == Container_stylesheet

Component_style(self) == Container_style(self)

\* Cmd::from(Task) and Cmd::from(Effects<MSG, ()>): a command of the same
\* tasks in the same order; the unit values of the child channel are dropped.
Cmd_from_task(task) == [tasks |-> <<task>>]

Cmd_from_effects(effects) ==
    [tasks |-> [i \in 1 .. Len(effects.local) |-> Task_new(effects.local[i])]]

\* Mutant of Application_init: the commands are collected in reverse order.
Application_init_reversed(self, returns) ==
    LET r == Component_init(self, returns)
    IN  [self |-> r.self,
         cmds |-> Reverse([i \in 1 .. Len(r.tasks) |-> Cmd_from_task(r.tasks[i])])]

\* impl Application<MSG> for COMP
Application_init(self, returns) ==
    LET r == Component_init(self, returns)
    IN  [self |-> r.self,
         cmds |-> [i \in 1 .. Len(r.tasks) |-> Cmd_from_task(r.tasks[i])]]

Application_update(self, msg, returns) ==
    LET r == Component_update(self, msg, returns)
    IN  [self |-> r.self, cmd |-> Cmd_from_effects(r.effects)]

Application_view(self) == Component_view(self)

Application_stylesheet == Component_stylesheet

Application_style(self) == Component_style(self)

SeqsUpTo(S, n) == UNION {[1 .. k -> S] : k \in 0 .. n}

TaskLists == SeqsUpTo({Task_new(m) : m \in CompMsgs}, MaxEffects)

EffectsSet == [local : SeqsUpTo(CompMsgs, MaxEffects), external : {<<>>, <<"unit">>}]

NoOutput == [op |-> "none", tasks |-> <<>>, local |-> <<>>, external |-> <<>>]

CompInit ==
    /\ comp = Container_default
    /\ appl = Container_default
    /\ compOut = NoOutput
    /\ applOut = [op |-> "none", cmds |-> <<>>]

\* init() is called on the component and on the application
DriveInit ==
    /\ compOut.op = "none"
    /\ \E returns \in TaskLists :
          LET c == Component_init(comp, returns)
              a == Application_init(appl, returns)
          IN  /\ comp' = c.self
              /\ compOut' = [NoOutput EXCEPT !.op = "init", !.tasks = c.tasks]
              /\ appl' = a.self
              /\ applOut' = [op |-> "init", cmds |-> a.cmds]
    /\ UNCHANGED <<treeVars, wcVars, elemVars>>

\* update(msg) is called on the component and on the application
DriveUpdate ==
    /\ compOut.op # "none"
    /\ \E msg \in CompMsgs, returns \in EffectsSet :
          /\ msg = "Inc" => comp.count < MaxCount
          /\ LET c == Component_update(comp, msg, returns)
                 a == Application_update(appl, msg, returns)
             IN  /\ comp' = c.self
                 /\ compOut' = [NoOutput EXCEPT !.op = "update",
                                                !.local = c.effects.local,
                                                !.external = c.effects.external]
                 /\ appl' = a.self
                 /\ applOut' = [op |-> "update", cmds |-> <<a.cmd>>]
    /\ UNCHANGED <<treeVars, wcVars, elemVars>>

CompNext ==
    \/ DriveInit
    \/ DriveUpdate

(***************************************************************************)
(* Rendering an element as text: Node::to_pretty_string.  A string is a    *)
(* TLA+ string, built by concatenation as the code builds its buffer.      *)
(***************************************************************************)
\* fn padd(n: i32): n times four blanks, none for n <= 0
RECURSIVE padd(_)
padd(n) == IF n <= 0 THEN "" ELSE "    " \o padd(n - 1)

\* Display of a Value and Debug of a Callback
Value_fmt(value) == value
Callback_fmt(cb) == "||{}"

\* impl fmt::Display for AttribValue
AttribValue_fmt(self) ==
    IF self.kind = "Value" THEN Value_fmt(self.value) ELSE Callback_fmt(self.cb)

\* impl fmt::Display for Text
Text_fmt(self) == self.text

\* Mutant of Element_is_children_a_node_text: any single child counts.
Element_is_children_a_node_text_any_child(self) == Len(self.children) = 1

\* Element::is_children_a_node_text
Element_is_children_a_node_text(self) ==
    Len(self.children) = 1 /\ Node_is_text_node(self.children[1])

\* for attr in self.attrs.iter() { buffer += &format!(r#" {}="{}""#, ..) }
RECURSIVE fmt_attrs(_)
fmt_attrs(attrs) ==
    IF attrs = <<>> THEN ""
    ELSE " " \o Head(attrs).name \o "=\"" \o AttribValue_fmt(Head(attrs).value)
         \o "\"" \o fmt_attrs(Tail(attrs))

RECURSIVE Node_to_pretty_string(_, _)
RECURSIVE Element_to_pretty_string(_, _)
RECURSIVE fmt_children(_, _)
\* for child in self.children.iter() { buffer += "\n" + padd + child }
fmt_children(children, indent) ==
    IF children = <<>> THEN ""
    ELSE "\n" \o padd(indent + 1)
         \o Node_to_pretty_string(Head(children), indent + 1)
         \o fmt_children(Tail(children), indent)

\* Element::to_pretty_string
Element_to_pretty_string(self, indent) ==
    LET opening == "<" \o self.tag \o fmt_attrs(self.attrs) \o ">"
        inner == IF Element_is_children_a_node_text(self)
                 THEN Node_to_pretty_string(self.children[1], indent)
                 ELSE fmt_children(self.children, indent)
        closing_line ==
            IF ~(Element_is_children_a_node_text(self) \/ self.children = <<>>)
            THEN "\n" \o padd(indent)
            ELSE ""
    IN  opening \o inner \o closing_line \o "</" \o self.tag \o ">"

\* Node::to_pretty_string
Node_to_pretty_string(self, indent) ==
    IF self.kind = "Element" THEN Element_to_pretty_string(self, indent)
    ELSE Text_fmt(self)

(***************************************************************************)
(* Queries on an element's attributes.                                     *)
(***************************************************************************)
\* Mutant of Element_events: no filter, every attribute is returned.
Element_events_unfiltered(self) == self.attrs

\* Element::events: the attributes that are events, in order
Element_events(self) == SelectSeq(self.attrs, LAMBDA attr : Attribute_is_event(attr))

\* Element::get_event: the first of events() with that name
Element_get_event(self, name) ==
    LET hits == SelectSeq(Element_events(self), LAMBDA event : event.name = name)
    IN  IF hits = <<>> THEN None ELSE Some(Head(hits))

\* Element::attributes: the attributes that are no events, in order
Element_attributes(self) ==
    SelectSeq(self.attrs, LAMBDA attr : ~Attribute_is_event(attr))

\* Element::get_attrib_value: the value of the first of attributes() with
\* that name
Element_get_attrib_value(self, key) ==
    LET hits == SelectSeq(Element_attributes(self), LAMBDA att : att.name = key)
    IN  IF hits = <<>> THEN None ELSE Some(Head(hits).value)

(***************************************************************************)
(* The element model: a node is given children and attributes with the     *)
(* Node combinators, rendered as text and queried.                         *)
(***************************************************************************)
ElemAttrPool ==
    {Attribute_new("class", ValueOf("x")),
     Attribute_new("class", ValueOf("y")),
     Attribute_new("onclick", ValueOf("js")),
     Attribute_new("onclick", CallbackOf(NewCallback("one")))}

ElemChildPool ==
    {Text_new("a"),
     Element_with_tag("span"),
     Node_children(Element_with_tag("p"), <<Text_new("b")>>)}

BasePool ==
    {Text_new("a"),
     Element_with_tag("div"),
     Node_children(
         Node_attributes([Element_with_tag("svg") EXCEPT !.namespace = NamespaceOf("svg")],
                         <<Attribute_new("id", ValueOf("i"))>>),
         <<Text_new("t")>>)}

QueryNames == {"class", "onclick", "title"}

NoCall == [op |-> "none"]

ElemIdle ==
    /\ elem = Text_new("a")
    /\ base = Text_new("a")
    /\ givenChildren = <<>>
    /\ givenAttrs = <<>>
    /\ lastCall = NoCall

ElemInit ==
    /\ base \in BasePool
    /\ elem = base
    /\ givenChildren = <<>>
    /\ givenAttrs = <<>>
    /\ lastCall = NoCall

\* elem = elem.children(cs)
CallChildren ==
    /\ \E cs \in SeqsUpTo(ElemChildPool, MaxGiven) :
          /\ Len(givenChildren) + Len(cs) <= MaxGiven
          /\ elem' = Node_children(elem, cs)
          /\ givenChildren' = givenChildren \o cs
          /\ lastCall' = [op |-> "children", given |-> cs, self |-> elem]
    /\ UNCHANGED <<base, givenAttrs>>
    /\ UNCHANGED <<treeVars, wcVars, compVars>>

\* elem = elem.attributes(attrs)
CallAttributes ==
    /\ \E attrs \in SeqsUpTo(ElemAttrPool, MaxGiven) :
          /\ Len(givenAttrs) + Len(attrs) <= MaxGiven
          /\ elem' = Node_attributes(elem, attrs)
          /\ givenAttrs' = givenAttrs \o attrs
          /\ lastCall' = [op |-> "attributes", given |-> attrs, self |-> elem]
    /\ UNCHANGED <<base, givenChildren>>
    /\ UNCHANGED <<treeVars, wcVars, compVars>>

\* elem.to_pretty_string(indent)
ToPrettyString ==
    /\ \E indent \in 0 .. MaxIndent :
          lastCall' = [op |-> "to_pretty_string", indent |-> indent,
                       out |-> Node_to_pretty_string(elem, indent)]
    /\ UNCHANGED <<elem, base, givenChildren, givenAttrs>>
    /\ UNCHANGED <<treeVars, wcVars, compVars>>

\* The queries of an element, asked for one name.
Query ==
    /\ elem.kind = "Element"
    /\ \E name \in QueryNames :
          lastCall' = [op |-> "query", name |-> name,
                       attributes |-> Element_attributes(elem),
                       events |-> Element_events(elem),
                       get_attr |-> Element_get_attr(elem, name),
                       get_event |-> Element_get_event(elem, name),
                       get_attrib_value |-> Element_get_attrib_value(elem, name)]
    /\ UNCHANGED <<elem, base, givenChildren, givenAttrs>>
    /\ UNCHANGED <<treeVars, wcVars, compVars>>

ElemNext ==
    \/ CallChildren
    \/ CallAttributes
    \/ ToPrettyString
    \/ Query

(***************************************************************************)
(* The specifications.  Spec is the custom-element runtime; SpecTree is    *)
(* the tree model under its combinators and Node::map; SpecComp drives a   *)
(* component directly and through its Application implementation.          *)
(***************************************************************************)
TreeIdle ==
    /\ node = Text_new("a")
    /\ mapFunc = None
    /\ mapOut = None
    /\ mapFunc2 = None
    /\ mapOut2 = None
    /\ mapDirect = None

Init == WcInit /\ TreeIdle /\ CompInit /\ ElemIdle
Next == WcNext
Spec == Init /\ [][Next]_vars

InitTree == TreeInit /\ WcInit /\ CompInit /\ ElemIdle
NextTree == TreeNext
SpecTree == InitTree /\ [][NextTree]_vars

InitComp == CompInit /\ WcInit /\ TreeIdle /\ ElemIdle
NextComp == CompNext
SpecComp == InitComp /\ [][NextComp]_vars

InitElem == ElemInit /\ WcInit /\ TreeIdle /\ CompInit
NextElem == ElemNext
SpecElem == InitElem /\ [][NextElem]_vars

(***************************************************************************)
(* Properties of Node::map.                                                *)
(***************************************************************************)
\* r is t with every Callback composed with f and nothing else changed.
RECURSIVE Remapped(_, _, _)
Remapped(t, r, f) ==
    IF t.kind = "Text" THEN r.kind = "Text" /\ r.text = t.text
    ELSE /\ r.kind = "Element"
         /\ r.tag = t.tag
         /\ r.namespace = t.namespace
         /\ Len(r.attrs) = Len(t.attrs)
         /\ \A i \in 1 .. Len(t.attrs) :
               /\ r.attrs[i].name = t.attrs[i].name
               /\ r.attrs[i].value.kind = t.attrs[i].value.kind
               /\ IF t.attrs[i].value.kind = "Value"
                  THEN r.attrs[i].value.value = t.attrs[i].value.value
                  ELSE \A e \in Events :
                          emit(r.attrs[i].value.cb, e)
                              = ApplyFunc(f, emit(t.attrs[i].value.cb, e))
         /\ Len(r.children) = Len(t.children)
         /\ \A i \in 1 .. Len(t.children) : Remapped(t.children[i], r.children[i], f)

\* a and b differ at most in the identity of their callbacks, and callbacks
\* at the same place yield the same message for every event payload.
RECURSIVE SameUpToCallbackIdentity(_, _)
SameUpToCallbackIdentity(a, b) ==
    IF a.kind = "Text" THEN b.kind = "Text" /\ b.text = a.text
    ELSE /\ b.kind = "Element"
         /\ b.tag = a.tag
         /\ b.namespace = a.namespace
         /\ Len(b.attrs) = Len(a.attrs)
         /\ \A i \in 1 .. Len(a.attrs) :
               /\ b.attrs[i].name = a.attrs[i].name
               /\ b.attrs[i].value.kind = a.attrs[i].value.kind
               /\ IF a.attrs[i].value.kind = "Value"
                  THEN b.attrs[i].value.value = a.attrs[i].value.value
                  ELSE \A e \in Events :
                          emit(b.attrs[i].value.cb, e) = emit(a.attrs[i].value.cb, e)
         /\ Len(b.children) = Len(a.children)
         /\ \A i \in 1 .. Len(a.children) :
               SameUpToCallbackIdentity(a.children[i], b.children[i])

\* C1: Node::map returns a tree isomorphic to its input: tags, namespaces,
\* attribute names and order, Value attributes, Text nodes and the order of
\* children are kept, and every Callback cb becomes one that yields f(cb(e))
\* for every event payload e.
C1_MapPreservesStructure ==
    mapOut # None => Remapped(node, mapOut[1], mapFunc[1])

\* C1 witness: a tree of depth two or more holding a Callback, a Value
\* attribute or Text, and at least three nodes has been mapped.
C1_Witness ==
    /\ mapOut # None
    /\ Depth(node) >= 2
    /\ NodeCount(node) >= 3
    /\ CallbackCount(node) >= 1
    /\ AttrCount(node) > CallbackCount(node)

\* C2 as stated: map(map(t, f), g) equals map(t, compose(g, f)) under the
\* tree's own equality, callbacks compared by function identity.
C2_ComposedMapsEqual ==
    mapOut2 # None => mapOut2[1] = mapDirect[1]

\* C2 amended: map(map(t, f), g) and map(t, compose(g, f)) agree on everything
\* but the identity of their callbacks, callbacks at the same place yield the
\* same message for every payload, and the two trees are equal when t holds
\* no Callback attribute.
C2_ComposedMapsEquivalent ==
    mapOut2 # None =>
        /\ SameUpToCallbackIdentity(mapOut2[1], mapDirect[1])
        /\ CallbackCount(node) = 0 => mapOut2[1] = mapDirect[1]

\* C2 witness: a tree with a Callback and two children was mapped twice with
\* two different functions.
C2_Witness ==
    /\ mapOut2 # None
    /\ mapFunc2 # mapFunc
    /\ CallbackCount(node) >= 1
    /\ node.kind = "Element"
    /\ Len(node.children) >= 2

(***************************************************************************)
(* Properties of the custom-element runtime.                               *)
(***************************************************************************)
\* A step that runs Program::update_dom to its end.
UpdateDomStep == pc \in {"update_dom", "cycle_update_dom"} /\ pc' = "idle"

SurfaceUnchanged ==
    /\ program'.mount_node = program.mount_node
    /\ program'.current_vdom = program.current_vdom

\* C3 as stated: an update_dom that runs with no message dispatched since the
\* last render (the one of connected_callback right after mount() included)
\* produces an empty mutation list and leaves the surface and the committed
\* tree unchanged.
C3_NoMessageNoMutation ==
    [][(UpdateDomStep /\ ~program.dispatched)
          => (program'.last_patches = Some(<<>>) /\ SurfaceUnchanged)]_vars

\* C3 amended: an update_dom that runs while the application's view equals the
\* committed tree (no change of application state since the last render)
\* produces an empty mutation list and leaves the surface and the committed
\* tree unchanged.
C3_UpdateDomIdempotent ==
    [][(UpdateDomStep /\ program.current_vdom = Some(App_view(program.app)))
          => (program'.last_patches = Some(<<>>) /\ SurfaceUnchanged)]_vars

\* C3 witness: the second attach ended with an update_dom that found nothing
\* to change, and a message had been handled before.
C3_Witness ==
    /\ pc = "idle"
    /\ attaches = 2
    /\ program.last_patches = Some(<<>>)
    /\ program.app.click_count > 0
    /\ program.current_vdom = Some(App_view(program.app))

\* C4: once disconnectedCallback was delivered, no step caused by an
\* attribute change, a dispatched message or a completed task runs update_dom
\* or changes the surface.
C4_NoCycleAfterDetach ==
    [][(detached /\ pc \in {"idle", "cycle_update_dom"} /\ pc' # "inject_static")
          => (~UpdateDomStep /\ SurfaceUnchanged)]_vars

\* C5: every call of APP::attribute_changed carries a name that is in
\* observed_attributes().
C5_OnlyObservedNotified ==
    /\ notified.names \subseteq SeqToSet(observed_attributes)
    /\ \A i \in 1 .. Len(notified.calls) :
          notified.calls[i].attr_name \in SeqToSet(observed_attributes)

\* C5 witness: an attribute outside observed_attributes() is set on the host
\* and a notification for an observed one has reached the handler.
C5_Witness ==
    /\ hostAttrs["title"] # None
    /\ "title" \notin SeqToSet(observed_attributes)
    /\ notified.names # {}

\* C6: an attribute change of an observed attribute hands exactly one call
\* {name, old value or absence, new value or absence} to the application's
\* handler; the application state, the committed tree and the surface stay
\* as they are, no update_dom runs, and the only message added is the one the
\* handler dispatched itself.
C6_AttributeChangedOnlyNotifies ==
    [][\A name \in SeqToSet(observed_attributes), value \in HostAttrOptions,
          handler \in Handlers :
          SetAttribute(name, value, handler) =>
             /\ notified'.calls = <<[attr_name |-> name,
                                     old_value |-> hostAttrs[name],
                                     new_value |-> value]>>
             /\ program'.app = program.app
             /\ SurfaceUnchanged
             /\ program'.last_patches = program.last_patches
             /\ program'.tasks = program.tasks
             /\ program'.pending_msgs =
                   program.pending_msgs
                   \o (IF handler = "dispatch" THEN <<"Click">> ELSE <<>>)]_vars

\* C6 witness: a mounted component was notified of the removal of an observed
\* attribute and no message is queued.
C6_Witness ==
    /\ Len(notified.calls) = 1
    /\ notified.calls[1].old_value # None
    /\ notified.calls[1].new_value = None
    /\ program.current_vdom # None
    /\ program.pending_msgs = <<>>

\* C7 as stated: the static and then the dynamic style block are in the mount
\* scope before rendered content is applied to the surface.
C7_StylesBeforeContent ==
    program.mount_node.children # <<>> =>
        /\ Len(program.mount_node.styles) >= 2
        /\ program.mount_node.styles[1] = Join(App_stylesheet)

\* C7 amended: in the n-th attach mount() renders the content first; then the
\* static style block and after it the per-instance style block are injected,
\* both before the application's connected_callback and the update_dom that
\* ends the attach.
C7_StylesAfterMount ==
    LET styles == program.mount_node.styles
        rendered == Len(program.mount_node.children)
    IN  /\ pc = "inject_static" =>
              rendered = attaches /\ Len(styles) = 2 * (attaches - 1)
        /\ pc = "inject_dynamic" =>
              /\ rendered = attaches
              /\ Len(styles) = 2 * attaches - 1
              /\ styles[2 * attaches - 1] = Join(App_stylesheet)
        /\ pc = "app_connected" =>
              /\ rendered = attaches
              /\ Len(styles) = 2 * attaches
              /\ styles[2 * attaches - 1] = Join(App_stylesheet)
              /\ styles[2 * attaches] = Join(App_style(program.app))
        /\ pc = "update_dom" =>
              /\ rendered = attaches
              /\ Len(styles) = 2 * attaches
              /\ styles[2 * attaches - 1] = Join(App_stylesheet)

\* C7 witness: the first attach has rendered the content and injected both
\* style blocks, and its update_dom is still to run.
C7_Witness ==
    /\ pc = "update_dom"
    /\ attaches = 1
    /\ Len(program.mount_node.children) = 1
    /\ Len(program.mount_node.styles) = 2

C9_LifecycleStateIntact ==
    /\ Len(program.mount_node.children) <= 1
    /\ Len(program.mount_node.styles) <= 2
    /\ (pc = "idle" /\ program.current_vdom # None) =>
          program.mount_node.children[Len(program.mount_node.children)]
              = create_dom_node(program.current_vdom[1])

RECURSIVE Spaces(_)
Spaces(n) == IF n <= 0 THEN "" ELSE " " \o Spaces(n - 1)

\* The text the rendering of n at an indent level is to be: a Text is its
\* text; an element without children is its two tags; an element whose only
\* child is a Text has it between the tags; any other element has every
\* child on a line of its own behind (indent + 1) * 4 blanks and the closing
\* tag on a line of its own behind indent * 4 blanks.
RECURSIVE PrettyForm(_, _)
PrettyForm(n, indent) ==
    IF n.kind = "Text" THEN n.text
    ELSE LET opening == "<" \o n.tag \o fmt_attrs(n.attrs) \o ">"
             closing == "</" \o n.tag \o ">"
             RECURSIVE Lines(_)
             Lines(cs) ==
                 IF cs = <<>> THEN ""
                 ELSE "\n" \o Spaces((indent + 1) * 4)
                      \o PrettyForm(Head(cs), indent + 1) \o Lines(Tail(cs))
         IN  IF Len(n.children) = 0 THEN opening \o closing
             ELSE IF Len(n.children) = 1 /\ n.children[1].kind = "Text"
             THEN opening \o n.children[1].text \o closing
             ELSE opening \o Lines(n.children)
                  \o "\n" \o Spaces(indent * 4) \o closing

\* C12: to_pretty_string renders an element with exactly one Text child as
\* opening tag, text, closing tag with nothing added; one without children as
\* its two tags; and any other with each child on its own line padded by
\* (indent + 1) * 4 blanks and the closing tag on its own line padded by
\* indent * 4 blanks, at every indent level and at every depth.
C12_PrettyPrintInlinesText ==
    lastCall.op = "to_pretty_string" =>
        lastCall.out = PrettyForm(elem, lastCall.indent)

\* C12 witness: an element with attributes and two or more children, one of
\* them an element with a single Text child, was rendered at indent 1.
C12_Witness ==
    /\ lastCall.op = "to_pretty_string"
    /\ lastCall.indent = 1
    /\ elem.kind = "Element"
    /\ elem.attrs # <<>>
    /\ Len(elem.children) >= 2
    /\ \E i \in 1 .. Len(elem.children) :
          /\ elem.children[i].kind = "Element"
          /\ Len(elem.children[i].children) = 1
          /\ elem.children[i].children[1].kind = "Text"

\* The attributes of attrs at the positions in idx, in their original order.
PickInOrder(attrs, idx) ==
    LET nth(k) == CHOOSE i \in idx : Cardinality({j \in idx : j < i}) = k - 1
    IN  [k \in 1 .. Cardinality(idx) |-> attrs[nth(k)]]

\* The first position in idx, if any, as an Option of what is found there.
FirstAt(attrs, idx) ==
    IF idx = {} THEN None
    ELSE Some(attrs[CHOOSE i \in idx : \A j \in idx : i <= j])

\* C13: attributes() is the attrs whose value is a Value and events() the
\* attrs whose value is a Callback, each in the original order, so that the
\* two partition attrs; get_event(name) is the first Callback attribute with
\* that name, get_attrib_value(name) the value of the first Value attribute
\* with that name, and get_attr(name) the first attribute with that name of
\* either kind; each is absent when there is no such attribute.
C13_QueriesPartitionAttrs ==
    lastCall.op = "query" =>
        LET attrs == elem.attrs
            all == 1 .. Len(attrs)
            plain == {i \in all : attrs[i].value.kind = "Value"}
            event == {i \in all : attrs[i].value.kind = "Callback"}
            named == {i \in all : attrs[i].name = lastCall.name}
            value == FirstAt(attrs, plain \cap named)
        IN  /\ lastCall.attributes = PickInOrder(attrs, plain)
            /\ lastCall.events = PickInOrder(attrs, event)
            /\ Len(lastCall.attributes) + Len(lastCall.events) = Len(attrs)
            /\ lastCall.get_attr = FirstAt(attrs, named)
            /\ lastCall.get_event = FirstAt(attrs, event \cap named)
            /\ lastCall.get_attrib_value
                  = IF value = None THEN None ELSE Some(value[1].value)

\* C13 witness: an element whose attrs hold a plain attribute named onclick
\* before an event attribute of the same name was asked for onclick.
C13_Witness ==
    /\ lastCall.op = "query"
    /\ lastCall.name = "onclick"
    /\ \E i, j \in 1 .. Len(elem.attrs) :
          /\ i < j
          /\ elem.attrs[i].name = "onclick" /\ elem.attrs[i].value.kind = "Value"
          /\ elem.attrs[j].name = "onclick" /\ elem.attrs[j].value.kind = "Callback"
    /\ lastCall.get_event # lastCall.get_attr
    /\ lastCall.get_attrib_value = Some(ValueOf("js"))

\* C14: after any sequence of children(cs) and attributes(as) calls on an
\* Element its children and attrs are the original ones followed by every cs,
\* respectively every as, in call order, with nothing removed, reordered or
\* deduplicated; a children call leaves attrs alone and an attributes call
\* leaves children alone; tag and namespace stay.  On a Text both calls
\* return the node as it was and what was given is dropped.
C14_CombinatorsAppend ==
    /\ elem.kind = base.kind
    /\ base.kind = "Text" => elem = base
    /\ base.kind = "Element" =>
          /\ elem.children = base.children \o givenChildren
          /\ elem.attrs = base.attrs \o givenAttrs
          /\ elem.tag = base.tag
          /\ elem.namespace = base.namespace
    /\ (lastCall.op = "children" /\ elem.kind = "Element") =>
          /\ elem.attrs = lastCall.self.attrs
          /\ elem.children = lastCall.self.children \o lastCall.given
    /\ (lastCall.op = "attributes" /\ elem.kind = "Element") =>
          /\ elem.children = lastCall.self.children
          /\ elem.attrs = lastCall.self.attrs \o lastCall.given
    /\ (lastCall.op \in {"children", "attributes"} /\ elem.kind = "Text") =>
          elem = lastCall.self

\* C14 witness: an Element that had an attribute and a child of its own was
\* given children in one call and then the same attribute twice, in two
\* calls, the last one after the children.
C14_Witness ==
    /\ base.kind = "Element"
    /\ base.attrs # <<>>
    /\ base.children # <<>>
    /\ Len(givenChildren) = 2
    /\ givenChildren[1] # givenChildren[2]
    /\ Len(givenAttrs) = 2
    /\ givenAttrs[1] = givenAttrs[2]
    /\ lastCall.op = "attributes"
    /\ Len(lastCall.given) = 1
    /\ Len(lastCall.self.children) = 3

(***************************************************************************)
(* Properties of the Application implemented for a Component.              *)
(***************************************************************************)
\* C10: after every sequence of init and update calls the application's
\* state, view, stylesheet and style equal the component's, and the commands
\* returned are the component's tasks, or the messages of its effects,
\* converted one for one in the same order.
C10_ApplicationMatchesComponent ==
    /\ appl = comp
    /\ Application_view(appl) = Component_view(comp)
    /\ Application_stylesheet = Component_stylesheet
    /\ Application_style(appl) = Component_style(comp)
    /\ applOut.op = compOut.op
    /\ compOut.op = "init" =>
          /\ Len(applOut.cmds) = Len(compOut.tasks)
          /\ \A i \in 1 .. Len(compOut.tasks) :
                applOut.cmds[i].tasks = <<compOut.tasks[i]>>
    /\ compOut.op = "update" =>
          /\ Len(applOut.cmds) = 1
          /\ Len(applOut.cmds[1].tasks) = Len(compOut.local)
          /\ \A i \in 1 .. Len(compOut.local) :
                applOut.cmds[1].tasks[i].yields = compOut.local[i]

\* C10 witness: after init and updates that changed the state, an update
\* returned two different messages and a unit for the child channel.
C10_Witness ==
    /\ compOut.op = "update"
    /\ comp.count >= 2
    /\ Len(compOut.local) = 2
    /\ compOut.local[1] # compOut.local[2]
    /\ compOut.external # <<>>

====
